---- MODULE Spec2Model ----
(***************************************************************************)
(* Model of the multi-LLM generation pipeline of hatty-ai-model:           *)
(*   MultiLLMOrchestrator (constructor, generate), the three axios         *)
(*   adapters (GrokChat, DeepSeekChat, LlamaGroqChat) and the              *)
(*   POST /api/generate handler with PreviewDeployment.deploy.             *)
(* One request is followed from its arrival to its HTTP response.  Every   *)
(* action is one run of the single JavaScript control thread from one      *)
(* await to the next; replies of remote services are the environment.      *)
(***************************************************************************)
EXTENDS Naturals, Sequences, FiniteSets

(* ----------------------------- bounds ---------------------------------- *)

\* largest number of provider credentials configured in one process
MaxEnabled == 3

(* ----------------------- values of the program ------------------------- *)

NoVal == "undefined"

Adapters == {"openai", "claude", "grok", "llama", "deepseek", "gemini", "mistral"}

\* the adapters whose invoke passes `timeout: 30000` to axios.post
TimedAdapters == {"grok", "llama", "deepseek"}

\* the backend id a task writes into its submission
ModelName_copyPaste(a) ==
    CASE a = "openai"   -> "OpenAI GPT-4o"
      [] a = "claude"   -> "OpenAI GPT-4o"
      [] a = "grok"     -> "Grok"
      [] a = "llama"    -> "Grok"
      [] a = "deepseek" -> "DeepSeek-Coder-V3"
      [] a = "gemini"   -> "DeepSeek-Coder-V3"
      [] OTHER          -> "Mistral-Large-2"

ModelName(a) ==
    CASE a = "openai"   -> "OpenAI GPT-4o"
      [] a = "claude"   -> "Claude 3.5 Sonnet"
      [] a = "grok"     -> "Grok"
      [] a = "llama"    -> "Llama-3.1-405B"
      [] a = "deepseek" -> "DeepSeek-Coder-V3"
      [] a = "gemini"   -> "Gemini-1.5-Pro"
      [] OTHER          -> "Mistral-Large-2"

\* request bodies: a missing/empty prompt and a real one; with or without project
Prompts == {"", "todo app"}
ProjectIds == {NoVal, "P1"}

\* text a backend may generate: the empty string or some code
Codes == {"", "code"}

DefaultFramework == "react"

\* a JSON value read as `requirements`: absent, a list of strings, or any
\* other truthy value (string, number, object), which has no join method
ReqAbsent == [tag |-> "absent", items |-> <<>>]
ReqList(items) == [tag |-> "list", items |-> items]
ReqOther == [tag |-> "other", items |-> <<>>]

DefaultRequirements == ReqList(<<"basic functionality">>)

\* replies of the judge to the analysis prompt.  kind: the call threw (error,
\* timeout), the content is not JSON, the content is the JSON null, or it is a
\* JSON object whose two fields are absent, well-formed, or (requirements) a
\* value that is not a list.
NoAnalysis == [kind |-> "none", framework |-> NoVal, requirements |-> ReqAbsent]

AnalysisReplies ==
    {[kind |-> k, framework |-> NoVal, requirements |-> ReqAbsent] :
        k \in {"throw", "nonjson", "null"}}
    \cup
    {[kind |-> "object", framework |-> f, requirements |-> r] :
        f \in {NoVal, "vue"},
        r \in {ReqAbsent, ReqList(<<"responsive design">>), ReqOther}}

\* replies of the judge to the scoring prompt.  An object reply has a winner
\* (or none), a winnerScore in tenths (0: absent or zero, both falsy) and a
\* scores field that is absent, an empty list, or a list whose first entry
\* names `first`.
WinnerScores == {0, 60, 90}

UnknownModel == "Unknown Model"
NoEvaluation ==
    [kind |-> "none", winner |-> NoVal, winnerScore |-> 0,
     scores |-> "absent", first |-> NoVal]

EvalReplies(names) ==
    {[kind |-> k, winner |-> NoVal, winnerScore |-> 0,
      scores |-> "absent", first |-> NoVal] : k \in {"throw", "nonjson", "null"}}
    \cup
    {[kind |-> "object", winner |-> w, winnerScore |-> ws,
      scores |-> "absent", first |-> NoVal] :
        w \in names \cup {UnknownModel}, ws \in WinnerScores}
    \cup
    {[kind |-> "object", winner |-> NoVal, winnerScore |-> 0,
      scores |-> sc, first |-> NoVal] : sc \in {"absent", "empty"}}
    \cup
    {[kind |-> "object", winner |-> NoVal, winnerScore |-> 0,
      scores |-> "entry", first |-> m] : m \in names \cup {UnknownModel, NoVal}}

\* the score generate returns, in tenths (8.5)
ReturnedScore == 85

NoSubmission == [model |-> NoVal, code |-> ""]
NoResult ==
    [ok |-> FALSE, code |-> "", model |-> NoVal, score |-> 0, models |-> <<>>]
NoResponse ==
    [status |-> 0, error |-> NoVal, details |-> NoVal, code |-> "",
     model |-> NoVal, score |-> 0, models |-> <<>>, previewUrl |-> NoVal]

\* keys of the mapping processCode can return; an absent key has no lines
Paths == {"App.tsx", "src/App.tsx", "index.html", "styles.css", "package.json"}
NoFile == <<>>
NoFiles == [p \in Paths |-> NoFile]

VARIABLES
    keys,            \* providers whose API key is set in process.env
    availableModels, \* MultiLLMOrchestrator.availableModels
    ctorThrew,       \* the constructor threw (no OpenAI key)
    pc,              \* position of the request handler
    prompt,          \* req.body.prompt
    projectId,       \* req.body.projectId, from its first read (line 270) on
    analysisReply,   \* what the analysis call to the judge produced
    framework,       \* generate's local `framework`
    requirements,    \* generate's local `requirements`
    call,            \* state of each adapter's generation call
    submissions,     \* generate's local `submissions`
    evalReply,       \* what the scoring call to the judge produced
    scoringCalls,    \* number of scoring calls issued to the judge
    result,          \* value generate returned
    genError,        \* message of the error generate threw
    previewUrl,      \* handler's local `previewUrl`
    deployCalls,     \* number of calls of previewDeployment.deploy
    generations,     \* number of Generation rows created
    chatMessages,    \* roles of the ChatMessage rows, in creation order
    response,        \* the HTTP response sent
    attempts,        \* number of fan-out rounds generate has launched
    rawText,         \* argument of processCode, as its lines
    files,           \* the mapping processCode returned
    xpc,             \* position of the processCode call
    earlierText,     \* history: the text of a call that returned earlier
    earlierFiles,    \* history: the mapping that call returned
    callsSince,      \* history: calls started since that call
    apiKey,          \* GrokChat / DeepSeekChat / LlamaGroqChat: apiKey is set
    invocation,      \* the invoke call of each of these adapter objects
    currentProject,  \* HomePage state currentProject (its id, or null)
    messages,        \* ChatInterface state messages: the project of each entry
    rows,            \* messages the server stores for each project
    pendingLoads,    \* loadMessages calls of the selection effect in flight
    chat,            \* position of handleSubmit and the project it closed over
    applied          \* history: the last load applied and the selection then

vars == <<keys, availableModels, ctorThrew, pc, prompt, projectId,
          analysisReply, framework, requirements, call, submissions,
          evalReply, scoringCalls, result, genError, previewUrl,
          deployCalls, generations, chatMessages, response, attempts,
          rawText, files, xpc, earlierText, earlierFiles, callsSince,
          apiKey, invocation, currentProject, messages, rows, pendingLoads,
          chat, applied>>

extractVars == <<rawText, files, xpc, earlierText, earlierFiles, callsSince>>
history == <<earlierText, earlierFiles, callsSince>>
adapterVars == <<apiKey, invocation>>
chatVars == <<currentProject, messages, rows, pendingLoads, chat, applied>>
standalone == <<extractVars, adapterVars, chatVars>>

genLocals == <<analysisReply, framework, requirements, call, submissions,
               evalReply>>
store == <<deployCalls, generations, chatMessages>>
config == <<keys, availableModels, ctorThrew>>
pipeline == <<config, attempts, pc, prompt, projectId, genLocals, scoringCalls,
              result, genError, previewUrl, store, response>>

\* the projects of the sidebar, and the selection null
Projects == {"p1", "p2"}
NoProject == "null"
IdleChat == [stage |-> "idle", project |-> NoProject]
NothingApplied == [project |-> NoProject, selected |-> NoProject]

\* sidebar.tsx lines 359-364 and HomePage: mounted, nothing selected
ChatMounted ==
    /\ currentProject = NoProject
    /\ messages = <<>>
    /\ rows = [p \in Projects |-> 0]
    /\ pendingLoads = [p \in Projects |-> 0]
    /\ chat = IdleChat
    /\ applied = NothingApplied

\* an adapter object that has not been invoked
NotInvoked == [state |-> "idle", content |-> "", error |-> ""]

(* --------------------------- constructor ------------------------------- *)

\* an adapter is created and pushed to availableModels iff its key is set
Constructor(ks) == ks

\* "Evaluator uses OpenAI (required)": the constructor throws without it
ConstructorThrows(ks) == "openai" \notin ks

Init ==
    /\ keys \in {ks \in SUBSET Adapters : Cardinality(ks) <= MaxEnabled}
    /\ availableModels = Constructor(keys)
    /\ ctorThrew = ConstructorThrows(keys)
    /\ pc = "idle"
    /\ prompt = NoVal
    /\ projectId = NoVal
    /\ analysisReply = NoAnalysis
    /\ framework = DefaultFramework
    /\ requirements = DefaultRequirements
    /\ call = [a \in Adapters |-> "none"]
    /\ submissions = <<>>
    /\ evalReply = NoEvaluation
    /\ scoringCalls = 0
    /\ result = NoResult
    /\ genError = NoVal
    /\ previewUrl = NoVal
    /\ deployCalls = 0
    /\ generations = 0
    /\ chatMessages = <<>>
    /\ response = NoResponse
    /\ attempts = 0
    /\ rawText = <<>>
    /\ files = NoFiles
    /\ xpc = "off"
    /\ earlierText = <<>>
    /\ earlierFiles = NoFiles
    /\ callsSince = 0
    /\ apiKey = [a \in TimedAdapters |-> a \in keys]
    /\ invocation = [a \in TimedAdapters |-> NotInvoked]
    /\ ChatMounted

(* ----------------------- POST /api/generate ---------------------------- *)

ErrorResponse(st, err, det) ==
    [NoResponse EXCEPT !.status = st, !.error = err, !.details = det]

\* The request arrives.  Without a prompt the handler answers 400; otherwise
\* it calls generate, which runs up to its first await: the analysis call.
Request ==
    /\ pc = "idle"
    /\ ~ctorThrew
    /\ \E p \in Prompts :
        /\ prompt' = p
        /\ IF p = ""
             THEN /\ pc' = "responded"
                  /\ response' = ErrorResponse(400, "Prompt is required", NoVal)
             ELSE /\ pc' = "analysis"
                  /\ response' = response
    /\ UNCHANGED standalone
    /\ UNCHANGED <<config, attempts, projectId, genLocals, scoringCalls, result,
                   genError, previewUrl, store>>

(* ------------------- generate, step 1: analysis ------------------------ *)

\* lines 305-315: the try block around evaluator.invoke and JSON.parse.
\* A throw, a parse error and a property read of null all land in the catch,
\* which leaves both locals at their initial values.
AnalyzeFramework(r) ==
    IF r.kind = "object" /\ r.framework # NoVal THEN r.framework ELSE DefaultFramework

AnalyzeRequirements_empty(r) ==
    IF r.kind = "object" /\ r.requirements.tag # "absent"
      THEN r.requirements ELSE ReqList(<<>>)

AnalyzeRequirements(r) ==
    IF r.kind = "object" /\ r.requirements.tag # "absent"
      THEN r.requirements ELSE DefaultRequirements

\* line 317: requirements.join(', ') outside the try block
JoinThrows(reqs) == reqs.tag # "list"

\* lines 329-488: one task per adapter that exists and is listed
Launched_all(avail) == Adapters

Launched(avail) == avail

AnalysisSettle ==
    /\ pc = "analysis"
    /\ \E r \in AnalysisReplies :
        /\ analysisReply' = r
        /\ framework' = AnalyzeFramework(r)
        /\ requirements' = AnalyzeRequirements(r)
        /\ IF JoinThrows(AnalyzeRequirements(r))
             THEN /\ pc' = "genfailed"
                  /\ genError' = "TypeError"
                  /\ call' = call
                  /\ attempts' = attempts
             ELSE /\ pc' = "fanout"
                  /\ genError' = genError
                  /\ attempts' = attempts + 1
                  /\ call' = [a \in Adapters |->
                                IF a \in Launched(availableModels)
                                  THEN "pending" ELSE "none"]
    /\ UNCHANGED standalone
    /\ UNCHANGED <<config, prompt, projectId, submissions, evalReply,
                   scoringCalls, result, previewUrl, store, response>>

(* ------------------- generate, step 2: fan-out ------------------------- *)

\* submissions.push({model, code, ...}) in a task's try block
PushSubmission_assign(subs, a, c) == <<[model |-> ModelName(a), code |-> c]>>

PushSubmission(subs, a, c) == Append(subs, [model |-> ModelName(a), code |-> c])

\* the adapter's call resolved with generated text
AdapterSucceed(a) ==
    /\ pc = "fanout"
    /\ call[a] = "pending"
    /\ \E c \in Codes : submissions' = PushSubmission(submissions, a, c)
    /\ call' = [call EXCEPT ![a] = "ok"]
    /\ UNCHANGED standalone
    /\ UNCHANGED <<config, attempts, pc, prompt, projectId, analysisReply, framework,
                   requirements, evalReply, scoringCalls, result, genError,
                   previewUrl, store, response>>

\* the task's catch block: log, push nothing
CatchFailure(a) ==
    /\ call' = [call EXCEPT ![a] = "failed"]
    /\ UNCHANGED standalone
    /\ UNCHANGED <<config, attempts, pc, prompt, projectId, analysisReply, framework,
                   requirements, submissions, evalReply, scoringCalls, result,
                   genError, previewUrl, store, response>>

\* the adapter's call rejected: transport error, non-success status, or a
\* reply without choices[0].message
AdapterFail(a) ==
    /\ pc = "fanout"
    /\ call[a] = "pending"
    /\ CatchFailure(a)

\* axios gives up after `timeout: 30000` and the adapter rethrows
AdapterTimeout(a) ==
    /\ pc = "fanout"
    /\ call[a] = "pending"
    /\ a \in TimedAdapters
    /\ CatchFailure(a)

(* ---------------- generate, steps 2-3: join and scoring ---------------- *)

\* await Promise.all(generatePromises): no task promise ever rejects, so the
\* await resumes when every launched task has settled
JoinSettled_race(c, launched) ==
    launched = {} \/ \E a \in launched : c[a] \in {"ok", "failed"}

JoinSettled(c, launched) == \A a \in launched : c[a] \in {"ok", "failed"}

\* line 494
NoSubmissionsError == "No models were able to generate code"

\* line 493
NoSubmissions_never(subs) == Len(subs) < 0

NoSubmissions(subs) == Len(subs) = 0

\* line 502
ScoringNeeded_always(subs) == Len(subs) >= 1

ScoringNeeded(subs) == Len(subs) > 1

\* submissions[0]
First(subs) == IF Len(subs) = 0 THEN NoSubmission ELSE subs[1]

\* submissions.find(s => s.model === m) || submissions[0]
Find_mixed(subs, m, i) ==
    IF \E j \in 1..Len(subs) : subs[j].model = m
    THEN [First(subs) EXCEPT !.model = m]
    ELSE First(subs)

RECURSIVE Find(_, _, _)
Find(subs, m, i) ==
    IF i > Len(subs) THEN First(subs)
    ELSE IF subs[i].model = m THEN subs[i]
    ELSE Find(subs, m, i + 1)

\* line 535: result.winner || result.scores[0]?.model
WinningModel(r) ==
    IF r.winner # NoVal THEN r.winner
    ELSE IF r.scores = "entry" THEN r.first ELSE NoVal

\* what sends lines 531-538 to the catch block: the call or JSON.parse threw,
\* the reply is null, or result.scores[0] is read while scores is absent
\* (line 535 without a winner, line 538 without a winnerScore)
EvaluationThrows(r) ==
    \/ r.kind # "object"
    \/ r.winner = NoVal /\ r.scores = "absent"
    \/ r.winnerScore = 0 /\ r.scores = "absent"

\* lines 500-545 once the judge has settled
PickWinner_last(subs, r) ==
    IF EvaluationThrows(r) THEN subs[Len(subs)]
    ELSE Find(subs, WinningModel(r), 1)

PickWinner(subs, r) ==
    IF EvaluationThrows(r) THEN First(subs)
    ELSE Find(subs, WinningModel(r), 1)

\* lines 547-558
MakeResult_single(best, subs) ==
    [ok |-> TRUE, code |-> best.code, model |-> best.model,
     score |-> IF Len(subs) = 1 THEN 100 ELSE ReturnedScore,
     models |-> [i \in 1..Len(subs) |-> subs[i].model]]

MakeResult(best, subs) ==
    [ok |-> TRUE, code |-> best.code, model |-> best.model,
     score |-> ReturnedScore, models |-> [i \in 1..Len(subs) |-> subs[i].model]]

Join ==
    /\ pc = "fanout"
    /\ JoinSettled(call, Launched(availableModels))
    /\ IF NoSubmissions(submissions)
         THEN /\ pc' = "genfailed"
              /\ genError' = NoSubmissionsError
              /\ UNCHANGED <<scoringCalls, result>>
         ELSE IF ScoringNeeded(submissions)
         THEN /\ pc' = "scoring"
              /\ scoringCalls' = scoringCalls + 1
              /\ UNCHANGED <<genError, result>>
         ELSE IF First(submissions) = NoSubmission
         THEN \* bestSubmission.code read on undefined
              /\ pc' = "genfailed"
              /\ genError' = "TypeError"
              /\ UNCHANGED <<scoringCalls, result>>
         ELSE /\ pc' = "generated"
              /\ result' = MakeResult(First(submissions), submissions)
              /\ UNCHANGED <<scoringCalls, genError>>
    /\ UNCHANGED standalone
    /\ UNCHANGED <<config, attempts, prompt, projectId, genLocals, previewUrl, store,
                   response>>

SubmittedNames(subs) == {subs[i].model : i \in 1..Len(subs)}

ScoringSettle ==
    /\ pc = "scoring"
    /\ \E r \in EvalReplies(SubmittedNames(submissions)) :
        /\ evalReply' = r
        /\ result' = MakeResult(PickWinner(submissions, r), submissions)
    /\ pc' = "generated"
    /\ UNCHANGED standalone
    /\ UNCHANGED <<config, attempts, prompt, projectId, analysisReply, framework,
                   requirements, call, submissions, scoringCalls, genError,
                   previewUrl, store, response>>

(* --------------- POST /api/generate after generate --------------------- *)

\* res.json({...result, previewUrl, timestamp})
SuccessResponse(res, url) ==
    [NoResponse EXCEPT !.status = 200, !.code = res.code, !.model = res.model,
                       !.score = res.score, !.models = res.models,
                       !.previewUrl = url]

\* the handler's catch block, lines 319-325
GenerationFailed(details) == ErrorResponse(500, "Generation failed", details)

\* generate's frame is gone once the handler resumes
PopFrame ==
    /\ analysisReply' = NoAnalysis
    /\ framework' = DefaultFramework
    /\ requirements' = DefaultRequirements
    /\ call' = [a \in Adapters |-> "none"]
    /\ submissions' = <<>>
    /\ evalReply' = NoEvaluation

\* generate rejected: the await throws into the handler's catch
HandleGenerateError ==
    /\ pc = "genfailed"
    /\ pc' = "responded"
    /\ response' = GenerationFailed(genError)
    /\ PopFrame
    /\ UNCHANGED standalone
    /\ UNCHANGED <<config, attempts, prompt, projectId, scoringCalls, result, genError,
                   previewUrl, store>>

\* line 263
DeployNeeded(res) == res.code # ""

\* generate resolved: lines 262-265, or 313-317 when the code is empty
HandleGenerateResult ==
    /\ pc = "generated"
    /\ IF DeployNeeded(result)
         THEN /\ pc' = "deploy"
              /\ deployCalls' = deployCalls + 1
              /\ response' = response
         ELSE /\ pc' = "responded"
              /\ deployCalls' = deployCalls
              /\ response' = SuccessResponse(result, previewUrl)
    /\ PopFrame
    /\ UNCHANGED standalone
    /\ UNCHANGED <<config, attempts, prompt, projectId, scoringCalls, result, genError,
                   previewUrl, generations, chatMessages>>

\* an awaited step of the handler threw: lines 319-325
HandlerCatch(details) ==
    /\ pc' = "responded"
    /\ response' = GenerationFailed(details)

\* deploy settled: it returns the preview URL, and the handler builds the
\* Generation row from the request body (lines 265-270), or deploy throws
\* "Deployment failed"
DeploySettle ==
    /\ pc = "deploy"
    /\ \/ /\ previewUrl' = "preview-url"
          /\ projectId' \in ProjectIds
          /\ pc' = "saveGeneration"
          /\ response' = response
       \/ /\ HandlerCatch("Deployment failed")
          /\ UNCHANGED <<previewUrl, projectId>>
    /\ UNCHANGED standalone
    /\ UNCHANGED <<config, attempts, prompt, genLocals, scoringCalls, result,
                   genError, store>>

\* prisma.generation.create settled, lines 268-281
SaveGenerationSettle ==
    /\ pc = "saveGeneration"
    /\ \/ /\ generations' = generations + 1
          /\ IF projectId # NoVal
               THEN pc' = "saveUserMessage" /\ response' = response
               ELSE pc' = "responded" /\ response' = SuccessResponse(result, previewUrl)
       \/ /\ HandlerCatch("database error")
          /\ generations' = generations
    /\ UNCHANGED standalone
    /\ UNCHANGED <<config, attempts, prompt, projectId, genLocals, scoringCalls, result,
                   genError, previewUrl, deployCalls, chatMessages>>

\* prisma.chatMessage.create for the user message settled, lines 283-289
SaveUserMessageSettle ==
    /\ pc = "saveUserMessage"
    /\ \/ /\ chatMessages' = Append(chatMessages, "user")
          /\ pc' = "saveAssistantMessage"
          /\ response' = response
       \/ /\ HandlerCatch("database error")
          /\ chatMessages' = chatMessages
    /\ UNCHANGED standalone
    /\ UNCHANGED <<config, attempts, prompt, projectId, genLocals, scoringCalls, result,
                   genError, previewUrl, deployCalls, generations>>

\* prisma.chatMessage.create for the assistant message settled, lines 292-303
SaveAssistantMessageSettle ==
    /\ pc = "saveAssistantMessage"
    /\ \/ /\ chatMessages' = Append(chatMessages, "assistant")
          /\ pc' = "updateProject"
          /\ response' = response
       \/ /\ HandlerCatch("database error")
          /\ chatMessages' = chatMessages
    /\ UNCHANGED standalone
    /\ UNCHANGED <<config, attempts, prompt, projectId, genLocals, scoringCalls, result,
                   genError, previewUrl, deployCalls, generations>>

\* prisma.project.update settled, lines 306-317
UpdateProjectSettle ==
    /\ pc = "updateProject"
    /\ \/ /\ pc' = "responded"
          /\ response' = SuccessResponse(result, previewUrl)
       \/ HandlerCatch("database error")
    /\ UNCHANGED standalone
    /\ UNCHANGED <<config, attempts, prompt, projectId, genLocals, scoringCalls, result,
                   genError, previewUrl, store>>

(* ---------------- PreviewDeployment.processCode ------------------------ *)

(* A text is the sequence of its lines (split on "\n"): the empty string is  *)
(* <<Blank>>, and no searched substring contains a line break.  The raw      *)
(* texts are built from the lines below; every table over lines was          *)
(* computed with the regular expressions of the source.                      *)

\* the line that consists of three backticks (a fence, with or without a tag)
Fence == "<fence>"
Blank == ""
Hello == "hello world"
NameComment == "// styles.css"
ImportReact == "import React from 'react';"
FnApp == "function App() { return <div>Hi</div>; }"
ArrowApp == "const App = () => <div>Hi</div>;"
ExportDefault == "export default App;"
CssRule == "body { margin: 0; }"
HtmlDoc == "<!DOCTYPE html><html><body>Hi</body></html>"
FnCounter == "function Counter() { return <p>0</p>; }"
ExportFn == "export default function App() { return <div>Hi</div>; }"
HtmlReact == "<html><script src=\"react.js\"></script><script src=\"babel.js\"></script></html>"

InputLines ==
    {Blank, Hello, NameComment, ImportReact, FnApp, ArrowApp, ExportDefault,
     CssRule, HtmlDoc, FnCounter, ExportFn, HtmlReact}

\* lines 285-291
BindApp == "window.App = App;"
BindCounter == "window.App = Counter;"
\* lines 297-300 applied to ExportFn: the keyword is taken for the name
BrokenExport == "window.App = function;App() { return <div>Hi</div>; }"
PlaceholderModule ==
    <<"function App() {",
      "  return React.createElement('div', { className: 'p-8' },",
      "    React.createElement('h1', { className: 'text-2xl font-bold mb-4' }, 'Todo App'),",
      "    React.createElement('p', null, 'Component could not be loaded. Please try generating again.')",
      "  );",
      "}",
      BindApp>>

\* lines 324-354
ReactScript == "    <script src=\"https://unpkg.com/react@18/umd/react.development.js\"></script>"
ReactDomScript == "    <script src=\"https://unpkg.com/react-dom@18/umd/react-dom.development.js\"></script>"
BabelScript == "    <script src=\"https://unpkg.com/@babel/standalone/babel.min.js\"></script>"
RootDiv == "    <div id=\"root\"></div>"
LoadApp == "    <script type=\"text/babel\" src=\"./App.tsx\" data-type=\"module\"></script>"
ReadGlobal == "        const App = window.App || (() => React.createElement('div', null, 'Loading...'));"
MountApp == "        root.render(React.createElement(App));"

createIndexHtml(title) ==
    <<"<!DOCTYPE html>",
      "<html lang=\"en\">",
      "<head>",
      "    <meta charset=\"UTF-8\">",
      "    <meta name=\"viewport\" content=\"width=device-width, initial-scale=1.0\">",
      "    <title>" \o title \o "</title>",
      ReactScript,
      ReactDomScript,
      BabelScript,
      "    <script src=\"https://cdn.tailwindcss.com\"></script>",
      "    <link rel=\"stylesheet\" href=\"./styles.css\">",
      "</head>",
      "<body>",
      RootDiv,
      LoadApp,
      "    <script type=\"text/babel\">",
      "      // Wait for App component to be loaded, then render it",
      "      const renderApp = () => {",
      "        // Get the default export from the loaded App module",
      ReadGlobal,
      "        const root = ReactDOM.createRoot(document.getElementById('root'));",
      MountApp,
      "      };",
      Blank,
      "      // Give the App.tsx time to load and execute",
      "      setTimeout(renderApp, 100);",
      "    </script>",
      "</body>",
      "</html>">>

\* lines 359-373: the template puts the content after four spaces
BodyIndent == "    "
NoBlocksComment == "<!-- No valid code blocks found in the response -->"

\* String.length of a line
LineLength(l) ==
    CASE l = Blank -> 0
      [] l = Hello -> 11
      [] l = NameComment -> 13
      [] l = ImportReact -> 26
      [] l = FnApp -> 40
      [] l = ArrowApp -> 32
      [] l = ExportDefault -> 19
      [] l = CssRule -> 19
      [] l = HtmlDoc -> 43
      [] l = BindApp -> 17
      [] l = FnCounter -> 39
      [] l = ExportFn -> 55
      [] l = HtmlReact -> 77
      [] l = BindCounter -> 21
      [] l = BrokenExport -> 53
      [] l = Fence -> 3

\* the lines that contain a given substring
HasDoctype == {HtmlDoc, "<!DOCTYPE html>"}
HasHtmlTag == {HtmlDoc, HtmlReact, "<html lang=\"en\">"}
HasImportReact == {ImportReact}
HasFromReact == {ImportReact}
HasMount == {}
HasOpenBrace == {FnApp, CssRule, FnCounter, ExportFn, BrokenExport}
HasColon == {CssRule}
HasSemicolon ==
    {ImportReact, FnApp, ArrowApp, ExportDefault, CssRule, BindApp, FnCounter,
     ExportFn, BindCounter, BrokenExport}
HasFunction == {FnApp, FnCounter, ExportFn, BrokenExport}
HasExport == {ExportDefault, ExportFn}
HasConst == {ArrowApp}
HasExportDefault == {ExportDefault, ExportFn}
HasExportDefaultFunction == {ExportFn}
HasCssMark == {CssRule}
HasArrow == {ArrowApp}
HasWindowApp == {BindApp, BindCounter, BrokenExport}
HasLowerReact == {ImportReact, HtmlReact}
HasBabel == {HtmlReact}
IsPackageJson == {}

Includes(t, S) == \E i \in 1..Len(t) : t[i] \in S

\* String.length of a text: its lines and the breaks between them
RECURSIVE TextLength(_)
TextLength(t) ==
    IF Len(t) = 0 THEN 0
    ELSE IF Len(t) = 1 THEN LineLength(t[1])
    ELSE LineLength(t[1]) + 1 + TextLength(Tail(t))

\* String.trim: blank lines at both ends go; trimming nothing but blank
\* lines leaves the empty string
RECURSIVE TrimStart(_)
TrimStart(t) ==
    IF Len(t) = 0 THEN <<>>
    ELSE IF t[1] = Blank THEN TrimStart(Tail(t)) ELSE t

RECURSIVE TrimEnd(_)
TrimEnd(t) ==
    IF Len(t) = 0 THEN <<>>
    ELSE IF t[Len(t)] = Blank THEN TrimEnd(SubSeq(t, 1, Len(t) - 1)) ELSE t

Trim(t) ==
    LET r == TrimEnd(TrimStart(t)) IN IF Len(r) = 0 THEN <<Blank>> ELSE r

\* a + b for texts: the last line of a and the first line of b become one
\* line; one of the two is always blank here
Cat(a, b) ==
    CASE a[Len(a)] = Blank -> SubSeq(a, 1, Len(a) - 1) \o b
      [] b[1] = Blank -> a \o Tail(b)

\* lines 77-78: code.matchAll(codeBlockRegex).  A fence opens
\* a block when a later fence closes it; the search resumes after the closing
\* fence.  at: number of lines before the opening fence; body: match[1].
RECURSIVE NextFence(_, _)
NextFence(t, i) ==
    IF i > Len(t) THEN 0
    ELSE IF t[i] = Fence THEN i ELSE NextFence(t, i + 1)

RECURSIVE Matches(_, _)
Matches(t, from) ==
    LET i == NextFence(t, from)
        j == IF i = 0 THEN 0 ELSE NextFence(t, i + 1)
    IN  IF i = 0 \/ j = 0 THEN <<>>
        ELSE <<[at |-> i - 1, body |-> SubSeq(t, i + 1, j - 1)]>>
             \o Matches(t, j + 1)

\* lines 207-218: the first comment in `comment` that names a file
CommentFileName(l) == IF l = NameComment THEN "styles.css" ELSE ""

RECURSIVE FirstCommentName(_)
FirstCommentName(t) ==
    IF Len(t) = 0 THEN ""
    ELSE IF CommentFileName(t[1]) # "" THEN CommentFileName(t[1])
    ELSE FirstCommentName(Tail(t))

\* lines 205-227
extractFileName(comment, code) ==
    IF FirstCommentName(comment) # "" THEN FirstCommentName(comment)
    ELSE IF Includes(code, HasDoctype) THEN "index.html"
    ELSE IF Includes(code, HasImportReact) THEN "App.tsx"
    ELSE IF Includes(code, HasExportDefaultFunction) THEN "App.tsx"
    ELSE IF Includes(code, HasCssMark) THEN "styles.css"
    ELSE ""

ComponentNames == <<"src/App.tsx", "src/Component1.tsx", "src/Component2.tsx",
                    "src/Component3.tsx">>
CodeNames == <<"src/code0.tsx", "src/code1.tsx", "src/code2.tsx",
               "src/code3.tsx">>

\* fileName.endsWith('.tsx') || fileName.endsWith('.jsx')
IsModuleName(f) ==
    \/ f \in {"App.tsx", "src/index.tsx"}
    \/ \E i \in 1..Len(ComponentNames) : f = ComponentNames[i]
    \/ \E i \in 1..Len(CodeNames) : f = CodeNames[i]

\* lines 95-129: the file name of block `index`, "" when it is skipped
FileNameOf(before, codeContent, index) ==
    LET fileName == extractFileName(before, codeContent) IN
    IF fileName # "" THEN fileName
    ELSE IF codeContent[1] \in IsPackageJson THEN "package.json"
    ELSE IF Includes(codeContent, HasDoctype) \/ Includes(codeContent, HasHtmlTag)
      THEN "index.html"
    ELSE IF Includes(codeContent, HasImportReact) \/ Includes(codeContent, HasFromReact)
      THEN IF Includes(codeContent, HasMount) THEN "src/index.tsx"
           ELSE ComponentNames[index + 1]
    ELSE IF /\ Includes(codeContent, HasOpenBrace)
            /\ Includes(codeContent, HasColon)
            /\ Includes(codeContent, HasSemicolon)
            /\ ~Includes(codeContent, HasFunction)
      THEN "styles.css"
    ELSE IF \/ Includes(codeContent, HasExport)
            \/ Includes(codeContent, HasFunction)
            \/ Includes(codeContent, HasConst)
      THEN CodeNames[index + 1]
    ELSE ""

\* lines 356-374
wrapInHtml_bare(content) == content

wrapInHtml(content) ==
    IF Includes(content, HasHtmlTag) THEN content
    ELSE <<"<!DOCTYPE html>",
           "<html lang=\"en\">",
           "<head>",
           "    <meta charset=\"UTF-8\">",
           "    <meta name=\"viewport\" content=\"width=device-width, initial-scale=1.0\">",
           "    <title>Generated App</title>",
           "    <script src=\"https://cdn.tailwindcss.com\"></script>",
           "    <style>",
           "        body { margin: 0; padding: 20px; font-family: system-ui, -apple-system, sans-serif; }",
           "    </style>",
           "</head>",
           "<body>">>
         \o <<BodyIndent \o content[1]>> \o Tail(content)
         \o <<"</body>", "</html>">>

\* line 284
MinLength == 20

\* lines 233-244: what the import removals leave of a line
BrowserLine(l) == IF l = ImportReact THEN Blank ELSE l

\* line 281, replace(/\n{3,}/g, '\n\n'): of a run of blank lines between two
\* lines one is left (the runs at both ends go with the trim that follows)
RECURSIVE CollapseBlank(_)
CollapseBlank(t) ==
    IF Len(t) < 2 THEN t
    ELSE IF t[1] = Blank /\ t[2] = Blank THEN CollapseBlank(Tail(t))
    ELSE <<t[1]>> \o CollapseBlank(Tail(t))

\* lines 307-308, 315: /function\s+(\w+)\s*\(/, the name it captures in a line
FunctionNameOf(l) ==
    IF l \in {FnApp, ExportFn, PlaceholderModule[1]} THEN "App"
    ELSE IF l = FnCounter THEN "Counter"
    ELSE ""

RECURSIVE FirstFunctionName(_)
FirstFunctionName(t) ==
    IF Len(t) = 0 THEN ""
    ELSE IF FunctionNameOf(t[1]) # "" THEN FunctionNameOf(t[1])
    ELSE FirstFunctionName(Tail(t))

\* lines 310, 317
BindTo(name) == "window.App = " \o name \o ";"

\* lines 297-300: export default X; becomes the binding of X
ExportLine(l) ==
    IF l = ExportDefault THEN BindTo("App")
    ELSE IF l = ExportFn THEN BrokenExport
    ELSE l

\* lines 294-319
ExposeOnWindow(transformed) ==
    LET name == FirstFunctionName(transformed) IN
    IF name # "" /\ ~Includes(transformed, HasWindowApp)
    THEN transformed \o <<BindTo(name)>>
    ELSE transformed

\* lines 229-322
transformForBrowser(code) ==
    LET transformed ==
            Trim(CollapseBlank([i \in 1..Len(code) |-> BrowserLine(code[i])]))
    IN  IF \/ TextLength(transformed) < MinLength
           \/ ~Includes(transformed, HasFunction) /\ ~Includes(transformed, HasArrow)
        THEN PlaceholderModule
        ELSE IF Includes(transformed, HasExportDefault)
        THEN ExposeOnWindow([i \in 1..Len(transformed) |-> ExportLine(transformed[i])])
        ELSE ExposeOnWindow(transformed)

\* lines 143-146: files['App.tsx'] += transformedContent + '\n\n'
AppendModule_replace(old, transformedContent) ==
    transformedContent \o <<Blank, Blank>>

AppendModule(old, transformedContent) ==
    Cat(IF old = NoFile THEN <<Blank>> ELSE old,
        transformedContent \o <<Blank, Blank>>)

\* lines 83-87: match[1].trim() and whether the block is skipped as empty
CodeContent(m) == Trim(m.body)
IsEmptyBlock(m) == CodeContent(m) = <<Blank>>

\* line 84: code.substring(0, match.index)
BeforeBlock(code, m) == SubSeq(code, 1, m.at)

\* lines 82-151: the callback of matches.forEach for block `index`
ProcessBlock(code, m, index, fs) ==
    LET codeContent == CodeContent(m)
        fileName == FileNameOf(BeforeBlock(code, m), codeContent, index)
    IN  IF IsEmptyBlock(m) \/ fileName = "" THEN fs
        ELSE IF IsModuleName(fileName)
        THEN IF Includes(codeContent, HasMount) THEN fs
             ELSE [fs EXCEPT !["App.tsx"] =
                      AppendModule(@, transformForBrowser(codeContent))]
        ELSE [fs EXCEPT ![fileName] = codeContent]

RECURSIVE ProcessBlocks(_, _, _, _)
ProcessBlocks(code, ms, index, fs) ==
    IF index >= Len(ms) THEN fs
    ELSE ProcessBlocks(code, ms, index + 1,
                       ProcessBlock(code, ms[index + 1], index, fs))

\* line 156: /function\s+(TodoApp|App)\s*\(/
RECURSIVE MainComponent(_)
MainComponent(t) ==
    IF Len(t) = 0 THEN ""
    ELSE IF FunctionNameOf(t[1]) \in {"TodoApp", "App"} THEN FunctionNameOf(t[1])
    ELSE MainComponent(Tail(t))

\* lines 154-165
ExposeMainComponent(fs) ==
    IF /\ fs["App.tsx"] # NoFile
       /\ MainComponent(fs["App.tsx"]) # ""
       /\ ~Includes(fs["App.tsx"], HasWindowApp)
    THEN [fs EXCEPT !["App.tsx"] =
             Cat(@, <<Blank, BindTo(MainComponent(fs["App.tsx"])), Blank>>)]
    ELSE fs

\* lines 168-180
EnsureIndexHtml_ifMissing(fs) ==
    IF (fs["App.tsx"] # NoFile \/ fs["src/App.tsx"] # NoFile) /\ fs["index.html"] = NoFile
    THEN [fs EXCEPT !["index.html"] = createIndexHtml("Generated App")]
    ELSE fs

EnsureIndexHtml(fs) ==
    LET hasReactFiles == fs["App.tsx"] # NoFile \/ fs["src/App.tsx"] # NoFile
        hasHtmlFile == fs["index.html"] # NoFile
        currentHtml == IF hasHtmlFile THEN fs["index.html"] ELSE <<Blank>>
        hasReactScripts == /\ Includes(currentHtml, HasLowerReact)
                           /\ Includes(currentHtml, HasBabel)
    IN  IF hasReactFiles /\ (~hasHtmlFile \/ ~hasReactScripts)
        THEN [fs EXCEPT !["index.html"] = createIndexHtml("Generated App")]
        ELSE fs

\* line 75: code.includes of the fence
HasFence(code) == \E i \in 1..Len(code) : code[i] = Fence

\* line 72: const files = {}, a new object in every call
NewFiles_field == files

NewFiles == NoFiles

\* lines 186-199
ProcessPlain(code) ==
    LET trimmedCode == Trim(code) IN
    IF \/ Includes(trimmedCode, HasImportReact)
       \/ Includes(trimmedCode, HasExportDefaultFunction)
    THEN [NewFiles EXCEPT !["src/App.tsx"] = trimmedCode,
                         !["index.html"] = createIndexHtml("React App")]
    ELSE IF \/ Includes(trimmedCode, HasDoctype)
            \/ Includes(trimmedCode, HasHtmlTag)
    THEN [NewFiles EXCEPT !["index.html"] = trimmedCode]
    ELSE [NewFiles EXCEPT !["index.html"] = wrapInHtml(trimmedCode)]

\* lines 71-203
processCode(code) ==
    IF HasFence(code)
    THEN IF Len(Matches(code, 1)) > 0
         THEN EnsureIndexHtml(ExposeMainComponent(
                  ProcessBlocks(code, Matches(code, 1), 0, NewFiles)))
         ELSE [NewFiles EXCEPT !["index.html"] = wrapInHtml(<<NoBlocksComment>>)]
    ELSE ProcessPlain(code)

(* ------------------------- extraction runs ----------------------------- *)

\* the raw texts: at most MaxLines lines of InputLines with at most MaxFences
\* fences among them
MaxLines == 2
MaxFences == 4

\* the text of length n whose fences stand at the positions S and whose
\* other lines are ls, in order
Weave(n, S, ls) ==
    [i \in 1..n |->
        IF i \in S THEN Fence
        ELSE ls[Cardinality({j \in 1..i : j \notin S})]]

\* where the fences of a text of n lines may stand
FencePositions(n) ==
    {S \in SUBSET (1..n) : /\ Cardinality(S) <= MaxFences
                           /\ n - Cardinality(S) <= MaxLines}

\* the server is up and no request is being handled
Quiescent ==
    /\ keys = {"openai"}
    /\ availableModels = Constructor(keys)
    /\ ctorThrew = ConstructorThrows(keys)
    /\ pc = "idle"
    /\ prompt = NoVal
    /\ projectId = NoVal
    /\ analysisReply = NoAnalysis
    /\ framework = DefaultFramework
    /\ requirements = DefaultRequirements
    /\ call = [a \in Adapters |-> "none"]
    /\ submissions = <<>>
    /\ evalReply = NoEvaluation
    /\ scoringCalls = 0
    /\ result = NoResult
    /\ genError = NoVal
    /\ previewUrl = NoVal
    /\ deployCalls = 0
    /\ generations = 0
    /\ chatMessages = <<>>
    /\ response = NoResponse
    /\ attempts = 0

\* PreviewDeployment is constructed once; a call of deploy hands the winning
\* code to processCode (line 30) while no request is being handled
ExtractInit ==
    /\ Quiescent
    /\ \E n \in 1..(MaxLines + MaxFences) :
         \E S \in FencePositions(n) :
           \E ls \in [1..(n - Cardinality(S)) -> InputLines] :
             rawText = Weave(n, S, ls)
    /\ files = NoFiles
    /\ xpc = "input"
    /\ earlierText = <<>>
    /\ earlierFiles = NoFiles
    /\ callsSince = 0
    /\ apiKey = [a \in TimedAdapters |-> a \in keys]
    /\ invocation = [a \in TimedAdapters |-> NotInvoked]
    /\ ChatMounted

\* line 30: const processedFiles = this.processCode(code)
ProcessCode ==
    /\ xpc = "input"
    /\ files' = processCode(rawText)
    /\ xpc' = "done"
    /\ UNCHANGED <<rawText, history, adapterVars, chatVars, pipeline>>

(* --------------------------- specification ----------------------------- *)

Next ==
    \/ Request
    \/ AnalysisSettle
    \/ \E a \in Adapters : AdapterSucceed(a)
    \/ \E a \in Adapters : AdapterFail(a)
    \/ \E a \in Adapters : AdapterTimeout(a)
    \/ Join
    \/ ScoringSettle
    \/ HandleGenerateError
    \/ HandleGenerateResult
    \/ DeploySettle
    \/ SaveGenerationSettle
    \/ SaveUserMessageSettle
    \/ SaveAssistantMessageSettle
    \/ UpdateProjectSettle

Spec == Init /\ [][Next]_vars

\* The control thread always runs a ready continuation, and axios fires the
\* 30 s timer of a call that is still pending.  Nothing obliges a remote
\* service, the file system or the database to answer.
FairSpec ==
    /\ Spec
    /\ WF_vars(Join)
    /\ WF_vars(HandleGenerateError)
    /\ WF_vars(HandleGenerateResult)
    /\ \A a \in Adapters : WF_vars(AdapterTimeout(a))

(* ------------------------ adapter objects ------------------------------ *)

\* GrokChat.invoke line 32, DeepSeekChat.invoke line 100, LlamaGroqChat.invoke
\* line 35: the content returned when apiKey is empty
KeyNotice(a) ==
    CASE a = "grok" -> "// Grok API key not configured"
      [] a = "deepseek" -> "// DeepSeek API key not configured"
      [] a = "llama" -> "// Groq API key not configured"

\* the message of the error thrown from the catch block of invoke
InvokeFailure(a) ==
    CASE a = "grok" -> "Grok generation failed"
      [] a = "deepseek" -> "DeepSeek generation failed"
      [] a = "llama" -> "Llama generation failed"

\* the classes are exported; their constructors accept an empty key and
\* only warn about it
AdapterInit ==
    /\ Quiescent
    /\ rawText = <<>>
    /\ files = NoFiles
    /\ xpc = "off"
    /\ earlierText = <<>>
    /\ earlierFiles = NoFiles
    /\ callsSince = 0
    /\ apiKey \in [TimedAdapters -> BOOLEAN]
    /\ invocation = [a \in TimedAdapters |-> NotInvoked]
    /\ ChatMounted

\* invoke up to its first await: without a key it returns at once
Invoke(a) ==
    /\ invocation[a].state = "idle"
    /\ invocation' =
         [invocation EXCEPT ![a] =
             IF ~apiKey[a]
             THEN [state |-> "returned", content |-> KeyNotice(a), error |-> ""]
             ELSE [state |-> "pending", content |-> "", error |-> ""]]
    /\ UNCHANGED <<apiKey, extractVars, chatVars, pipeline>>

\* axios.post resolves and the reply holds a message: its content, or ''
InvokeReply(a) ==
    /\ invocation[a].state = "pending"
    /\ \E c \in Codes :
         invocation' = [invocation EXCEPT ![a] =
                           [state |-> "returned", content |-> c, error |-> ""]]
    /\ UNCHANGED <<apiKey, extractVars, chatVars, pipeline>>

\* axios.post rejects (transport or remote error, or the 30 s timeout) or the
\* reply has no choices: the catch block rethrows one fixed message
InvokeError(a) ==
    /\ invocation[a].state = "pending"
    /\ invocation' = [invocation EXCEPT ![a] =
                         [state |-> "threw", content |-> "", error |-> InvokeFailure(a)]]
    /\ UNCHANGED <<apiKey, extractVars, chatVars, pipeline>>

AdapterNext ==
    \/ \E a \in TimedAdapters : Invoke(a)
    \/ \E a \in TimedAdapters : InvokeReply(a)
    \/ \E a \in TimedAdapters : InvokeError(a)

AdapterSpec == AdapterInit /\ [][AdapterNext]_vars

(* --------------------------- ChatInterface ----------------------------- *)

\* rows kept per project and entries shown, and effect loads in flight
MaxMessages == 3
MaxPending == 2

\* the list a load of project p sets: response.data mapped (lines 388-394)
Loaded(p) == [i \in 1..rows[p] |-> p]

ChatInit ==
    /\ Quiescent
    /\ rawText = <<>>
    /\ files = NoFiles
    /\ xpc = "off"
    /\ earlierText = <<>>
    /\ earlierFiles = NoFiles
    /\ callsSince = 0
    /\ apiKey = [a \in TimedAdapters |-> a \in keys]
    /\ invocation = [a \in TimedAdapters |-> NotInvoked]
    /\ currentProject = NoProject
    /\ messages = <<>>
    /\ rows \in [Projects -> 0..1]
    /\ pendingLoads = [p \in Projects |-> 0]
    /\ chat = IdleChat
    /\ applied = NothingApplied

\* Sidebar calls onProjectSelect (lines 68, 92, 160); the effect of lines
\* 376-382 runs for the new id: it starts a load, or empties the list
Select(p) ==
    /\ p # currentProject
    /\ currentProject' = p
    /\ IF p # NoProject
         THEN /\ pendingLoads[p] < MaxPending
              /\ pendingLoads' = [pendingLoads EXCEPT ![p] = @ + 1]
              /\ UNCHANGED messages
         ELSE /\ messages' = <<>>
              /\ UNCHANGED pendingLoads
    /\ UNCHANGED <<rows, chat, applied, extractVars, adapterVars, pipeline>>

\* lines 387-394: the GET issued for project p answers and its list is set
LoadSettle(p) ==
    /\ pendingLoads[p] > 0
    /\ pendingLoads' = [pendingLoads EXCEPT ![p] = @ - 1]
    /\ messages' = Loaded(p)
    /\ applied' = [project |-> p, selected |-> currentProject]
    /\ UNCHANGED <<currentProject, rows, chat, extractVars, adapterVars, pipeline>>

\* lines 395-397: the GET fails; the list stays as it is
LoadFail(p) ==
    /\ pendingLoads[p] > 0
    /\ pendingLoads' = [pendingLoads EXCEPT ![p] = @ - 1]
    /\ UNCHANGED <<currentProject, messages, rows, chat, applied, extractVars,
                   adapterVars, pipeline>>

\* lines 434-460: handleSubmit up to the POST of /api/generate
Submit ==
    /\ chat.stage = "idle"
    /\ currentProject # NoProject
    /\ Len(messages) < MaxMessages
    /\ rows[currentProject] + 2 <= MaxMessages
    /\ messages' = Append(messages, currentProject)
    /\ chat' = [stage |-> "posting", project |-> currentProject]
    /\ UNCHANGED <<currentProject, rows, pendingLoads, applied, extractVars,
                   adapterVars, pipeline>>

\* lines 459-464: the generation is answered (the server has stored the user
\* and the assistant message) and handleSubmit awaits loadMessages of the
\* project it closed over
GenerateSettle ==
    /\ chat.stage = "posting"
    /\ rows' = [rows EXCEPT ![chat.project] = @ + 2]
    /\ chat' = [chat EXCEPT !.stage = "reloading"]
    /\ UNCHANGED <<currentProject, messages, pendingLoads, applied, extractVars,
                   adapterVars, pipeline>>

\* lines 471-487: the generation failed; the error message is posted
GenerateFail ==
    /\ chat.stage = "posting"
    /\ chat' = [chat EXCEPT !.stage = "saving"]
    /\ UNCHANGED <<currentProject, messages, rows, pendingLoads, applied,
                   extractVars, adapterVars, pipeline>>

\* lines 484-488: the error message is stored, loadMessages is awaited
SaveErrorSettle ==
    /\ chat.stage = "saving"
    /\ rows' = [rows EXCEPT ![chat.project] = @ + 1]
    /\ chat' = [chat EXCEPT !.stage = "reloading"]
    /\ UNCHANGED <<currentProject, messages, pendingLoads, applied, extractVars,
                   adapterVars, pipeline>>

\* lines 489-495: storing it failed; it is appended to the list shown
SaveErrorFail ==
    /\ chat.stage = "saving"
    /\ messages' = Append(messages, chat.project)
    /\ chat' = IdleChat
    /\ UNCHANGED <<currentProject, rows, pendingLoads, applied, extractVars,
                   adapterVars, pipeline>>

\* lines 464 / 488 with 387-394, then 492-495: the awaited load answers
ReloadSettle ==
    /\ chat.stage = "reloading"
    /\ messages' = Loaded(chat.project)
    /\ applied' = [project |-> chat.project, selected |-> currentProject]
    /\ chat' = IdleChat
    /\ UNCHANGED <<currentProject, rows, pendingLoads, extractVars, adapterVars,
                   pipeline>>

\* the awaited load fails (lines 395-397); handleSubmit ends
ReloadFail ==
    /\ chat.stage = "reloading"
    /\ chat' = IdleChat
    /\ UNCHANGED <<currentProject, messages, rows, pendingLoads, applied,
                   extractVars, adapterVars, pipeline>>

ChatNext ==
    \/ \E p \in Projects \cup {NoProject} : Select(p)
    \/ \E p \in Projects : LoadSettle(p)
    \/ \E p \in Projects : LoadFail(p)
    \/ Submit
    \/ GenerateSettle
    \/ GenerateFail
    \/ SaveErrorSettle
    \/ SaveErrorFail
    \/ ReloadSettle
    \/ ReloadFail

ChatSpec == ChatInit /\ [][ChatNext]_vars

(* ---------------------- repeated extraction ---------------------------- *)

\* the texts of the repeated calls: one line, bare or in a fenced block
RepeatTexts ==
    {<<l>> : l \in InputLines} \cup {<<Fence, l, Fence>> : l \in InputLines}

\* calls started after the remembered one
MaxCalls == 2

RepeatInit ==
    /\ ExtractInit
    /\ rawText \in RepeatTexts

\* deploy is called again, with any text (line 30)
CallAgain ==
    /\ xpc = "done"
    /\ callsSince < MaxCalls
    /\ rawText' \in RepeatTexts
    /\ xpc' = "input"
    /\ callsSince' = callsSince + 1
    /\ UNCHANGED <<files, earlierText, earlierFiles, adapterVars, chatVars,
                   pipeline>>

\* history only: the call that has just returned is the one remembered
Remember ==
    /\ xpc = "done"
    /\ earlierText' = rawText
    /\ earlierFiles' = files
    /\ callsSince' = 0
    /\ UNCHANGED <<rawText, files, xpc, adapterVars, chatVars, pipeline>>

RepeatNext == ProcessCode \/ CallAgain \/ Remember

RepeatSpec == RepeatInit /\ [][RepeatNext]_vars

ExtractNext == ProcessCode

ExtractSpec == ExtractInit /\ [][ExtractNext]_vars

(* ------------------------------ claims --------------------------------- *)

OkAdapters == {a \in Adapters : call[a] = "ok"}
FailedAdapters == {a \in Adapters : call[a] = "failed"}
PendingAdapters == {a \in Adapters : call[a] = "pending"}

\* generate is past its join and its frame is still live
Joined ==
    \/ pc \in {"scoring", "generated"}
    \/ pc = "genfailed" /\ genError = NoSubmissionsError

OnePerAdapter(S) ==
    /\ Len(submissions) = Cardinality(S)
    /\ \A a \in S : \E i \in 1..Len(submissions) : submissions[i].model = ModelName(a)

\* C1: fan-out fault isolation.  While the tasks run, the list holds exactly
\* one submission per adapter whose call has succeeded, whatever failed
\* meanwhile; after the join, for the set F of failed adapters, it holds
\* exactly one submission per adapter of (enabled minus F).
C1_FaultIsolation ==
    /\ pc \in {"fanout", "scoring", "generated", "genfailed"}
         => OnePerAdapter(OkAdapters)
    /\ Joined => /\ OkAdapters = availableModels \ FailedAdapters
                 /\ OnePerAdapter(availableModels \ FailedAdapters)

\* three adapters, one failed, the two siblings submitted
C1_Witness ==
    /\ pc = "scoring"
    /\ Cardinality(availableModels) = 3
    /\ Cardinality(FailedAdapters) = 1
    /\ Len(submissions) = 2

\* C2: join before proceed.  Scoring, the winner, the no-submissions error
\* and the return all come after every launched call has settled.
C2_JoinBeforeProceed ==
    (\/ pc \in {"scoring", "generated", "genfailed"}
     \/ scoringCalls > 0
     \/ result.ok
     \/ genError # NoVal)
      => PendingAdapters = {}

\* a run that went on after a failure and a success, both waited for
C2_Witness ==
    /\ pc = "generated"
    /\ FailedAdapters # {}
    /\ Cardinality(OkAdapters) >= 2

\* C3: no-submissions failure.  When every launched call has failed,
\* generate throws the no-submissions error, returns nothing and asks the
\* judge for no scores; the handler then deploys nothing, stores nothing
\* and answers 500.
C3_NoSubmissionsFailure ==
    /\ (/\ pc \in {"scoring", "generated", "genfailed"}
        /\ \A a \in availableModels : call[a] = "failed")
         => /\ pc = "genfailed"
            /\ genError = NoSubmissionsError
    /\ genError = NoSubmissionsError
         => /\ ~result.ok
            /\ scoringCalls = 0
            /\ deployCalls = 0
            /\ generations = 0
            /\ chatMessages = <<>>
            /\ pc \in {"genfailed", "responded"}
            /\ pc = "responded"
                 => /\ response.status = 500
                    /\ response.error = "Generation failed"
                    /\ response.details = NoSubmissionsError
                    /\ response.code = ""

\* the handler has answered a run in which several adapters all failed
C3_Witness ==
    /\ pc = "responded"
    /\ genError = NoSubmissionsError
    /\ Cardinality(availableModels) >= 2
    /\ response.status = 500

\* C4: submission uniqueness.  In every state the list has at most one
\* submission per adapter, every backend id is that of an enabled adapter,
\* and no two submissions share a backend id.
C4_SubmissionUniqueness ==
    /\ Len(submissions) <= Cardinality(availableModels)
    /\ \A i \in 1..Len(submissions) :
         \E a \in availableModels : submissions[i].model = ModelName(a)
    /\ \A i, j \in 1..Len(submissions) :
         i # j => submissions[i].model # submissions[j].model

\* every enabled adapter of a three-adapter run has submitted
C4_Witness ==
    /\ Len(submissions) = 3
    /\ Cardinality(availableModels) = 3

\* C5: judge scoring call count.  One submission: it wins and the judge is
\* not asked for scores.  Two or more: the judge is asked exactly once.
C5_ScoringCallCount ==
    /\ scoringCalls <= 1
    /\ pc = "scoring" => scoringCalls = 1 /\ Len(submissions) >= 2
    /\ pc = "generated"
         => /\ Len(submissions) = 1
                 => /\ scoringCalls = 0
                    /\ evalReply = NoEvaluation
                    /\ result.model = submissions[1].model
                    /\ result.code = submissions[1].code
            /\ Len(submissions) >= 2 => scoringCalls = 1

\* the only surviving submission of a run with several adapters has won
C5_Witness ==
    /\ pc = "generated"
    /\ Len(submissions) = 1
    /\ Cardinality(availableModels) >= 2
    /\ result.ok

\* C6 as stated: with two or more submissions, if the judge call throws, the
\* reply cannot be decoded, it has no winner field, or its winner names no
\* submitted backend, the winner is the first submission and a result is
\* returned.
C6_FallbackAsStated ==
    (/\ pc = "generated"
     /\ Len(submissions) >= 2
     /\ \/ evalReply.kind \in {"throw", "nonjson", "null"}
        \/ evalReply.winner = NoVal
        \/ evalReply.winner \notin SubmittedNames(submissions))
      => /\ result.ok
         /\ result.model = submissions[1].model
         /\ result.code = submissions[1].code

\* C6 amended: as C6, but a reply without a winner field falls back to the
\* first submission only if the first entry of its scores list names no
\* submitted backend either (or there is no such entry).
C6_EvaluatorFallback ==
    (/\ pc = "generated"
     /\ Len(submissions) >= 2
     /\ \/ evalReply.kind \in {"throw", "nonjson", "null"}
        \/ /\ evalReply.winner = NoVal
           /\ ~(/\ evalReply.scores = "entry"
                /\ evalReply.first \in SubmittedNames(submissions))
        \/ /\ evalReply.winner # NoVal
           /\ evalReply.winner \notin SubmittedNames(submissions))
      => /\ result.ok
         /\ result.model = submissions[1].model
         /\ result.code = submissions[1].code

\* the judge named a model nobody submitted and the first of three won
C6_Witness ==
    /\ pc = "generated"
    /\ Len(submissions) = 3
    /\ evalReply.kind = "object"
    /\ evalReply.winner = UnknownModel
    /\ result.model = submissions[1].model

\* C7: the analyzer never aborts the run.  Once the analysis call has
\* settled, whatever it produced, the fan-out is launched, and generate can
\* only fail for want of submissions.
C7_AnalysisNeverAborts ==
    /\ (analysisReply.kind # "none")
         => \A a \in availableModels : call[a] # "none"
    /\ genError \in {NoVal, NoSubmissionsError}

\* C8 as stated: after a failed or undecodable analysis the fan-out request
\* has framework "generic UI" and requirements ["basic functionality"].
C8_DefaultsAsStated ==
    (pc = "fanout" /\ analysisReply.kind \in {"throw", "nonjson", "null"})
      => /\ framework = "generic UI"
         /\ requirements = ReqList(<<"basic functionality">>)

\* C8 amended: after a failed or undecodable analysis the fan-out request
\* has framework "react" and requirements ["basic functionality"].
C8_AnalyzerDefaults ==
    (pc = "fanout" /\ analysisReply.kind \in {"throw", "nonjson", "null"})
      => /\ framework = "react"
         /\ requirements = ReqList(<<"basic functionality">>)

\* the fan-out runs after an analysis reply that was not JSON
C8_Witness ==
    /\ pc = "fanout"
    /\ analysisReply.kind = "nonjson"
    /\ PendingAdapters # {}

\* C9: a deployment or persistence failure is not fatal to the result.  When
\* generate returned a winner, the answer carries its code, backend and
\* score, and "Generation failed" is never the answer to such a run.
C9_DeploymentNotFatal ==
    (pc = "responded" /\ result.ok)
      => /\ response.status = 200
         /\ response.error # "Generation failed"
         /\ response.code = result.code
         /\ response.model = result.model
         /\ response.score = result.score

\* C10: every outbound call owns a deadline, so a run that has started
\* eventually returns a result or fails.
C10_RunTerminates ==
    (pc = "analysis") ~> (pc \in {"generated", "genfailed"})

\* C11 as stated: for every provider, the judge's included, a missing
\* credential only excludes that adapter: it is never invoked, submits
\* nothing, and construction does not fail.
C11_DisabledAsStated ==
    /\ ~ctorThrew
    /\ \A a \in Adapters \ keys :
         /\ call[a] = "none"
         /\ ModelName(a) \notin SubmittedNames(submissions)

\* C11 amended: for every provider other than OpenAI a missing credential
\* only excludes that adapter: it is never invoked, submits nothing and is
\* not in the returned models, and construction succeeds.  A missing OpenAI
\* credential makes the constructor throw, and no run takes place.
C11_AdapterDisabled ==
    /\ ctorThrew <=> "openai" \notin keys
    /\ ctorThrew => pc = "idle" /\ attempts = 0
    /\ \A a \in Adapters \ keys :
         /\ call[a] = "none"
         /\ ModelName(a) \notin SubmittedNames(submissions)
         /\ \A i \in 1..Len(result.models) : result.models[i] # ModelName(a)
         /\ \A i \in 1..Len(response.models) : response.models[i] # ModelName(a)

\* a run with five providers unconfigured was answered with a result
C11_Witness ==
    /\ keys = {"openai", "grok"}
    /\ pc = "responded"
    /\ response.status = 200
    /\ Len(response.models) = 2

\* C12: reported score.  Every returned score lies in [0,10] (0..100 tenths)
\* and is the one neutral value 8.5 whenever the scoring call was skipped
\* (single submission) or failed.
C12_ReportedScore ==
    /\ result.ok => result.score \in 0..100
    /\ response.status = 200 => response.score \in 0..100
    /\ (/\ pc = "generated"
        /\ \/ Len(submissions) = 1
           \/ evalReply.kind \in {"throw", "nonjson", "null"})
         => result.score = 85

\* the judge threw on three submissions and the run returned its score
C12_Witness ==
    /\ pc = "generated"
    /\ Len(submissions) = 3
    /\ evalReply.kind = "throw"
    /\ result.score = 85

\* C13: auto-retry.  A request makes at most two attempts, and a run whose
\* best score, as judged, is below 8.5 is returned only after a second one.
C13_AutoRetry ==
    /\ attempts <= 2
    /\ (/\ pc = "generated"
        /\ evalReply.kind = "object"
        /\ evalReply.winner \in SubmittedNames(submissions)
        /\ evalReply.winnerScore \in 1..84)
         => attempts = 2

ModulePaths == {"App.tsx", "src/App.tsx"}
OnlyIndexHtml(fs) == \A p \in Paths : fs[p] # NoFile <=> p = "index.html"

Blocks == Matches(rawText, 1)
BlockName(i) == FileNameOf(BeforeBlock(rawText, Blocks[i]), CodeContent(Blocks[i]), i - 1)

\* the blocks that are classified, and those among them that go to the module
Classified == {i \in 1..Len(Blocks) : ~IsEmptyBlock(Blocks[i]) /\ BlockName(i) # ""}
ModuleBlocks ==
    {i \in Classified : /\ IsModuleName(BlockName(i))
                        /\ ~Includes(CodeContent(Blocks[i]), HasMount)}
PlainBlocks == {i \in Classified : ~IsModuleName(BlockName(i))}

\* the body element of html holds exactly the text, after the indentation
Wraps(html, text) ==
    \E i \in 1..Len(html) :
        /\ html[i] = "<body>"
        /\ Len(html) > i + Len(text)
        /\ html[i + 1] = BodyIndent \o text[1]
        /\ \A k \in 2..Len(text) : html[i + k] = text[k]
        /\ html[i + Len(text) + 1] = "</body>"

NoHtmlMark(t) == ~Includes(t, HasDoctype) /\ ~Includes(t, HasHtmlTag)

\* C15: global-binding guarantee.  Every application-module file that
\* processCode returns contains a statement that binds window.App.
C15_GlobalBinding ==
    xpc = "done" =>
        \A p \in ModulePaths : files[p] # NoFile => Includes(files[p], HasWindowApp)

\* C16: non-empty bundle.  For a non-empty raw text the returned mapping
\* contains index.html; when the text has fenced blocks and none of them is
\* classified, the mapping is exactly one index.html that wraps the raw text.
C16_NonEmptyBundle ==
    (xpc = "done" /\ rawText # <<Blank>>) =>
        /\ files["index.html"] # NoFile
        /\ (Len(Blocks) > 0 /\ Classified = {}) =>
               /\ OnlyIndexHtml(files)
               /\ Wraps(files["index.html"], Trim(rawText))

C18_FileNaming ==
    xpc = "done" =>
        /\ files["src/App.tsx"] = NoFile
        /\ Includes(files["index.html"], {LoadApp}) => files["App.tsx"] # NoFile

\* the transformed contents of the module blocks from block i on, each
\* followed by its blank line, in detection order
RECURSIVE TransformedFrom(_)
TransformedFrom(i) ==
    IF i > Len(Blocks) THEN <<>>
    ELSE IF i \in ModuleBlocks
    THEN transformForBrowser(CodeContent(Blocks[i])) \o <<Blank>> \o TransformedFrom(i + 1)
    ELSE TransformedFrom(i + 1)

\* C19: Scenario D, module merging.  With two or more application-module
\* blocks the mapping has one application-module file, App.tsx, that holds
\* the transformed contents of the blocks in detection order (followed by
\* nothing but blank lines and the binding of the main component), and it
\* has an entry document.
C19_ModuleMerging ==
    (xpc = "done" /\ Cardinality(ModuleBlocks) >= 2) =>
        LET merged == TransformedFrom(1) IN
        /\ files["src/App.tsx"] = NoFile
        /\ Len(files["App.tsx"]) > Len(merged)
        /\ SubSeq(files["App.tsx"], 1, Len(merged)) = merged
        /\ \A k \in (Len(merged) + 1)..Len(files["App.tsx"]) :
               files["App.tsx"][k] \in {Blank, BindApp}
        /\ files["index.html"] # NoFile

\* two module blocks with different transformed contents were merged
C19_Witness ==
    /\ xpc = "done"
    /\ Cardinality(ModuleBlocks) = 2
    /\ \E i, j \in ModuleBlocks :
           /\ i < j
           /\ transformForBrowser(CodeContent(Blocks[i]))
                # transformForBrowser(CodeContent(Blocks[j]))
    /\ files["App.tsx"] # NoFile

\* C20: no path collisions.  No two blocks that are classified and are not
\* application-module blocks get the same file path.
C20_NoPathCollisions ==
    xpc = "done" =>
        \A i, j \in PlainBlocks : i # j => BlockName(i) # BlockName(j)

C22_AuthAbsence ==
    \A a \in TimedAdapters :
        ~apiKey[a] =>
            /\ invocation[a].state # "returned"
            /\ invocation[a].state = "threw" => invocation[a].error # InvokeFailure(a)

\* the last line of t that assigns window.App, "" when there is none
RECURSIVE LastBinding(_)
LastBinding(t) ==
    IF Len(t) = 0 THEN ""
    ELSE IF t[Len(t)] \in HasWindowApp THEN t[Len(t)]
    ELSE LastBinding(SubSeq(t, 1, Len(t) - 1))

DeclaresApp(t) == \E k \in 1..Len(t) : FunctionNameOf(t[k]) = "App"

\* C23: primary-component binding.  When the merged module declares a
\* function named App (the blocks being plain declarations, none of them a
\* default export), its last window.App assignment exposes App.
C23_PrimaryComponent ==
    (/\ xpc = "done"
     /\ files["App.tsx"] # NoFile
     /\ DeclaresApp(files["App.tsx"])
     /\ ~Includes(rawText, HasExportDefault)) =>
        LastBinding(files["App.tsx"]) = BindTo("App")

\* the module blocks that contribute a component of their own
RealBlocks ==
    {i \in ModuleBlocks :
        transformForBrowser(CodeContent(Blocks[i])) # PlaceholderModule}

\* C24: placeholder fallback.  When at least one application-module block
\* contributes a real component, the returned module holds no placeholder.
C24_PlaceholderOnMerged ==
    (xpc = "done" /\ RealBlocks # {}) =>
        ~Includes(files["App.tsx"], {PlaceholderModule[4]})

\* the line of the closing fence of block i, 0 for i = 0
BlockEnd(i) == IF i = 0 THEN 0 ELSE Blocks[i].at + Len(Blocks[i].body) + 2

\* C25: filename inference scope.  A block that is named by a filename
\* comment has that comment between the previous block and its own fence.
C25_CommentScope ==
    xpc = "done" =>
        \A i \in Classified :
            FirstCommentName(BeforeBlock(rawText, Blocks[i])) # "" =>
                \E k \in (BlockEnd(i - 1) + 1)..Blocks[i].at :
                    CommentFileName(rawText[k]) # ""

HasModule == \E p \in ModulePaths : files[p] # NoFile
Synthesized(html) == html \in {createIndexHtml("Generated App"), createIndexHtml("React App")}
\* the blocks whose content is stored as index.html
HtmlBlocks == {i \in PlainBlocks : BlockName(i) = "index.html"}
HasReactScripts(html) == Includes(html, HasLowerReact) /\ Includes(html, HasBabel)

\* C26 as stated: with an application module in the mapping, index.html
\* references the runtime and the compiler, loads the App module and mounts
\* the global component.
C26_EntryAsStated ==
    (xpc = "done" /\ HasModule) =>
        /\ Includes(files["index.html"], {ReactScript, HtmlReact})
        /\ Includes(files["index.html"], {BabelScript, HtmlReact})
        /\ Includes(files["index.html"], {LoadApp})
        /\ Includes(files["index.html"], {MountApp})

\* C26: entry document for modules.  With an application module in the
\* mapping, index.html is the synthesized document (runtime, compiler,
\* ./App.tsx, mount of window.App) or a generated block that contains both
\* "react" and "babel"; a generated index.html that lacks either is replaced
\* by the synthesized one.
C26_EntryDocument ==
    (xpc = "done" /\ HasModule) =>
        /\ \/ Synthesized(files["index.html"])
           \/ \E i \in HtmlBlocks :
                  /\ files["index.html"] = CodeContent(Blocks[i])
                  /\ HasReactScripts(CodeContent(Blocks[i]))
        /\ Synthesized(files["index.html"]) =>
               /\ Includes(files["index.html"], {ReactScript})
               /\ Includes(files["index.html"], {BabelScript})
               /\ Includes(files["index.html"], {LoadApp})
               /\ Includes(files["index.html"], {MountApp})
        /\ (\E i \in HtmlBlocks : ~HasReactScripts(CodeContent(Blocks[i])))
               => \/ Synthesized(files["index.html"])
                  \/ HasReactScripts(files["index.html"])

\* a generated document without the scripts was replaced beside a module
C26_Witness ==
    /\ xpc = "done"
    /\ files["App.tsx"] # NoFile
    /\ \E i \in HtmlBlocks : CodeContent(Blocks[i]) = <<HtmlDoc>>
    /\ files["index.html"] = createIndexHtml("Generated App")

\* C27: default-export normalization.  A module block that is an exported
\* function declaration leaves the declaration in the module, and every
\* window.App assignment of the module binds a function the module declares.
C27_DefaultExport ==
    (xpc = "done" /\ files["App.tsx"] # NoFile) =>
        /\ (\E i \in ModuleBlocks : CodeContent(Blocks[i]) = <<ExportFn>>)
               => Includes(files["App.tsx"], {FnApp})
        /\ \A k \in 1..Len(files["App.tsx"]) :
               files["App.tsx"][k] \in HasWindowApp =>
                   \E j \in 1..Len(files["App.tsx"]) :
                       /\ FunctionNameOf(files["App.tsx"][j]) # ""
                       /\ files["App.tsx"][k] = BindTo(FunctionNameOf(files["App.tsx"][j]))

\* C28: order dependence of the fallback winner.  When the scoring call
\* fails, the winner is the submission that was pushed first, that is the
\* adapter whose call completed first, and the returned models are those of
\* the adapters that succeeded, in whatever order they completed.
C28_OrderDependence ==
    (/\ pc = "generated"
     /\ Len(submissions) >= 2
     /\ evalReply.kind \in {"throw", "nonjson", "null"}) =>
        /\ result.model = submissions[1].model
        /\ {result.models[i] : i \in 1..Len(result.models)}
             = {ModelName(a) : a \in OkAdapters}

\* the scoring call failed and Grok won, though OpenAI's task is launched
\* first: Grok's call completed before it
C28_Witness ==
    /\ pc = "generated"
    /\ evalReply.kind = "throw"
    /\ OkAdapters = {"openai", "grok"}
    /\ result.model = ModelName("grok")
    /\ result.models = <<ModelName("grok"), ModelName("openai")>>

\* C29: winner consistency.  In every result generate returns, the model is
\* in the models list, the code is the code of the submission of that model,
\* and the models list is the list of the submissions' backend ids.
C29_WinnerConsistency ==
    (pc = "generated" /\ result.ok) =>
        /\ \E i \in 1..Len(result.models) : result.models[i] = result.model
        /\ \E i \in 1..Len(submissions) :
               /\ submissions[i].model = result.model
               /\ submissions[i].code = result.code
        /\ Len(result.models) = Len(submissions)
        /\ \A i \in 1..Len(submissions) : result.models[i] = submissions[i].model

\* the judge chose the second of two submissions, whose codes differ
C29_Witness ==
    /\ pc = "generated"
    /\ Len(submissions) = 2
    /\ evalReply.kind = "object"
    /\ submissions[1].code # submissions[2].code
    /\ result.model = submissions[2].model
    /\ result.code = submissions[2].code

\* C30: chat history matches the selection.  A load is applied only while
\* its project is the selected one, and when nothing is in flight every
\* entry of the list belongs to the selected project.
C30_HistoryMatchesSelection ==
    /\ applied.project # NoProject => applied.selected = applied.project
    /\ (chat.stage = "idle" /\ \A p \in Projects : pendingLoads[p] = 0)
         => \A i \in 1..Len(messages) : messages[i] = currentProject

====
